---------------------------- MODULE Spec2Model ----------------------------
(***************************************************************************)
(* A model of check_clientes.py: the ray-casting point-in-polygon test,    *)
(* the union-of-polygons membership query, the two coordinate parsers, the *)
(* KML ring extractor and the batch pipeline of main.                      *)
(*                                                                         *)
(* Representation.  A Python str is a sequence of one-character strings,  *)
(* over the printable ASCII characters and \t, \n, \r, \f.  None is the    *)
(* empty tuple; a Point is <<lon, lat>>; a vertex is <<x, y>>.             *)
(*                                                                         *)
(* A Python float is an IEEE 754 binary64 value <<kind, sign, mant, exp>>: *)
(* kind "finite" stands for (-1)^sign * mant * 2^exp, with mant an odd     *)
(* natural below 2^53 and -1074 <= exp (mant = 0 and exp = 0 for the two   *)
(* zeros); kinds "inf" and "nan" are the infinities and the NaN.  mant is  *)
(* a natural of any size, written as its digits in base 2^15, the least    *)
(* significant first.  Every operation rounds its exact result to the      *)
(* nearest double, ties to even, as the hardware does.                     *)
(***************************************************************************)
EXTENDS Integers, Sequences, FiniteSets, TLC

VARIABLES pc,           \* position of the running function / of main
          coordinates,  \* Polygon.coordinates of the polygon under test
          point,        \* the Point under test (None == <<>>)
          i,            \* contains_point: loop index
          inside,       \* contains_point: local inside
          p1,           \* contains_point: locals (p1x, p1y)
          xinters,      \* contains_point: local xinters, Unassigned before line 41 ran
          polygons,     \* the list of Polygon (each its coordinates)
          result,       \* return value of the function under test
          raw,          \* parse_client_coordinates: its argument
          doc,          \* the KML document: its Polygon elements, in document order
          csvFile,      \* the client CSV: [ok, cols, gps], gps the 'Punto gps' fields
          kmlOk,        \* whether ET.parse accepts the KML file
          outputOk,     \* whether the output file can be opened for writing
          df,           \* main: the DataFrame [cols, data], data a Series per column
          outputFile    \* the output CSV: NotWritten, or the table written

vars == <<pc, coordinates, point, i, inside, p1, xinters, polygons, result,
          raw, doc, csvFile, kmlOk, outputOk, df, outputFile>>

None == <<>>
Unassigned == <<>>
Idle == <<>>

-----------------------------------------------------------------------------
(* Bounds of the model *)

MaxRing == 3      \* longest ring of the ring enumeration
MaxRaw == 5       \* longest raw coordinate string of the string enumeration
MaxPolys == 2     \* longest list of polygons of the zone enumeration
MaxTokens == 4    \* most coordinate tokens in a ring of the KML enumeration
MaxRows == 2      \* most client records in the CSV of the pipeline enumeration

-----------------------------------------------------------------------------
(* Polygon.contains_point *)

Abs(a) == IF a < 0 THEN -a ELSE a
Min(a, b) == IF a < b THEN a ELSE b
Max(a, b) == IF a > b THEN a ELSE b
MaxOf(S) == CHOOSE m \in S : \A j \in S : j <= m
MinOf(S) == CHOOSE m \in S : \A j \in S : m <= j

\* The binary64 format of a Python float: 53 significant bits, the least
\* bit of a subnormal worth 2^-1074, every finite value below 2^1024
MantBits == 53
MinExp == -1074
MaxExp == 1024

\* Naturals of any size, in base 2^LimbBits
LimbBits == 15
Base == 32768

RECURSIVE Pow2(_)
Pow2(k) == IF k = 0 THEN 1 ELSE 2 * Pow2(k - 1)

RECURSIVE BigOfNat(_)
BigOfNat(n) == IF n = 0 THEN <<>> ELSE <<n % Base>> \o BigOfNat(n \div Base)

BigOne == <<1>>

Limb(X, j) == IF j <= Len(X) THEN X[j] ELSE 0

NonZeroLimbs(X) == {j \in 1 .. Len(X) : X[j] # 0}

BigTrim(X) ==
    IF NonZeroLimbs(X) = {} THEN <<>> ELSE SubSeq(X, 1, MaxOf(NonZeroLimbs(X)))

ZeroLimbs(n) == <<>> \o [j \in 1 .. n |-> 0]

\* -1, 0 or 1 as X is below, equal to or above Y
BigCmp(X, Y) ==
    LET d == {j \in 1 .. Len(X) : X[j] # Limb(Y, j)}
    IN  IF Len(X) < Len(Y) THEN -1
        ELSE IF Len(X) > Len(Y) THEN 1
        ELSE IF d = {} THEN 0
        ELSE IF X[MaxOf(d)] < Y[MaxOf(d)] THEN -1
        ELSE 1

\* The carry into digit j of X + Y + c
CarryInto(X, Y, c, j) ==
    IF \/ \E k \in 1 .. j - 1 :
             /\ Limb(X, k) + Limb(Y, k) >= Base
             /\ \A l \in k + 1 .. j - 1 : Limb(X, l) + Limb(Y, l) = Base - 1
       \/ c = 1 /\ \A l \in 1 .. j - 1 : Limb(X, l) + Limb(Y, l) = Base - 1
    THEN 1 ELSE 0
BigAddCarry(X, Y, c) ==
    BigTrim(<<>> \o [j \in 1 .. Max(Len(X), Len(Y)) + 1 |->
                       (Limb(X, j) + Limb(Y, j) + CarryInto(X, Y, c, j)) % Base])
BigAdd(X, Y) == BigAddCarry(X, Y, 0)
\* 2 * X + b, for a bit b
BigDouble(X, b) == BigAddCarry(X, X, b)

\* The borrow from digit j of X - Y
BorrowFrom(X, Y, j) ==
    IF \E k \in 1 .. j - 1 :
          /\ X[k] < Limb(Y, k)
          /\ \A l \in k + 1 .. j - 1 : X[l] = Limb(Y, l)
    THEN 1 ELSE 0
\* X - Y, for X >= Y
BigSub(X, Y) ==
    BigTrim(<<>> \o [j \in 1 .. Len(X) |->
                       (X[j] - Limb(Y, j) - BorrowFrom(X, Y, j) + Base) % Base])

\* X * m, for 0 <= m < Base
BigMulSmall(X, m) ==
    IF m = 1 THEN X
    ELSE BigAdd(<<>> \o [j \in 1 .. Len(X) |-> (X[j] * m) % Base],
           <<0>> \o [j \in 1 .. Len(X) |-> (X[j] * m) \div Base])

RECURSIVE BitLenSmall(_)
BitLenSmall(n) == IF n = 0 THEN 0 ELSE 1 + BitLenSmall(n \div 2)
\* The number of bits of X
BigBitLen(X) ==
    IF X = <<>> THEN 0 ELSE LimbBits * (Len(X) - 1) + BitLenSmall(X[Len(X)])

\* Bit k of X, bit 0 the least significant
BigBit(X, k) == (Limb(X, (k \div LimbBits) + 1) \div Pow2(k % LimbBits)) % 2

\* X * 2^k
BigShl(X, k) ==
    IF X = <<>> \/ k = 0 THEN X
    ELSE ZeroLimbs(k \div LimbBits) \o BigMulSmall(X, Pow2(k % LimbBits))

RECURSIVE BigMulRange(_, _, _, _)
BigMulRange(X, Y, lo, hi) ==
    IF lo = hi THEN BigMulSmall(X, Y[lo])
    ELSE LET mid == (lo + hi) \div 2
         IN  BigAdd(BigMulRange(X, Y, lo, mid),
                    BigShl(BigMulRange(X, Y, mid + 1, hi), LimbBits * (mid + 1 - lo)))
BigMul(X, Y) ==
    IF X = <<>> \/ Y = <<>> THEN <<>> ELSE BigMulRange(X, Y, 1, Len(Y))

RECURSIVE TrailingZerosSmall(_)
TrailingZerosSmall(n) == IF n % 2 = 1 THEN 0 ELSE 1 + TrailingZerosSmall(n \div 2)
\* The number of zero bits below the least bit set of X, for X > 0
BigTrailingZeros(X) ==
    LET j == MinOf(NonZeroLimbs(X))
    IN  LimbBits * (j - 1) + TrailingZerosSmall(X[j])

\* The integer part of X / 2^k
BigShr(X, k) ==
    LET d == k \div LimbBits
        r == k % LimbBits
    IN  IF k = 0 THEN X
        ELSE BigTrim(<<>> \o [j \in 1 .. Len(X) - d |->
                           (X[j + d] \div Pow2(r))
                               + (Limb(X, j + d + 1) % Pow2(r)) * Pow2(LimbBits - r)])

\* Long division, one bit of N at a time: with Rm < D the remainder so far,
\* the bits hi-1 .. lo of N are brought down; q is the quotient bits found
RECURSIVE BigDivSteps(_, _, _, _, _)
BigDivSteps(Rm, N, D, hi, lo) ==
    IF hi = lo THEN [q |-> <<>>, r |-> Rm]
    ELSE IF hi = lo + 1
    THEN LET r2 == BigDouble(Rm, BigBit(N, lo))
         IN  IF BigCmp(r2, D) >= 0 THEN [q |-> <<1>>, r |-> BigSub(r2, D)]
             ELSE [q |-> <<>>, r |-> r2]
    ELSE LET mid == (hi + lo) \div 2
             a == BigDivSteps(Rm, N, D, hi, mid)
             b == BigDivSteps(a.r, N, D, mid, lo)
         IN  [q |-> BigAdd(BigShl(a.q, mid - lo), b.q), r |-> b.r]
\* The quotient and the remainder of N by D, for D > 0
BigDivMod(N, D) ==
    LET k == Max(BigBitLen(N) - BigBitLen(D) + 1, 0)
    IN  BigDivSteps(BigShr(N, k), N, D, k, 0)

\* The values of a float
Kind(a) == a[1]
Sign(a) == a[2]
Mant(a) == a[3]
Exp(a) == a[4]
Finite(s, M, e) == <<"finite", s, M, e>>
Zero(s) == <<"finite", s, <<>>, 0>>
Inf(s) == <<"inf", s, <<>>, 0>>
Nan == <<"nan", 0, <<>>, 0>>

IsNan(a) == Kind(a) = "nan"
IsInf(a) == Kind(a) = "inf"
IsZero(a) == Kind(a) = "finite" /\ Mant(a) = <<>>

\* The outcome of a float division whose divisor is zero
ZeroDivisionError == <<"ZeroDivisionError", 0, <<>>, 0>>

\* M * 2^e with the mantissa made odd, for M > 0
Normal(s, M, e) ==
    LET tz == BigTrailingZeros(M) IN Finite(s, BigShr(M, tz), e + tz)

\* Whether M * 2^e is a double, for M > 0
IsDouble(M, e) ==
    LET tz == BigTrailingZeros(M)
        len == BigBitLen(M)
    IN  len - tz <= MantBits /\ e + tz >= MinExp /\ len + e <= MaxExp

\* The double nearest to (-1)^s * (N / D) * 2^e, ties to even, for D > 0:
\* the value itself when it is a double, an infinity from 2^1024 on, and else
\* the quotient by the unit of the last place 2^u, rounded on its remainder.

\* The position of the highest bit of N / D, k being the difference of the
\* bit lengths of N and D
QuotientTop(N, D, k) ==
    IF (IF k >= 0 THEN BigCmp(N, BigShl(D, k)) ELSE BigCmp(BigShl(N, -k), D)) >= 0
    THEN k ELSE k - 1

\* Whether the quotient qr.q of remainder qr.r by den is rounded up: the
\* remainder is above the half of den, or is the half and the quotient is odd
RoundsUp(qr, den, half) == half > 0 \/ (half = 0 /\ BigBit(qr.q, 0) = 1)

\* The double of mantissa m > 0 and unit 2^u after rounding, which may have
\* carried into 2^1024
RoundedMantissa(s, m, u) ==
    IF m = <<>> THEN Zero(s)
    ELSE IF BigBitLen(m) + u > MaxExp THEN Inf(s)
    ELSE Normal(s, m, u)

RoundQuotient(s, qr, den, u) ==
    RoundedMantissa(s, IF RoundsUp(qr, den, BigCmp(BigDouble(qr.r, 0), den))
                       THEN BigAdd(qr.q, BigOne) ELSE qr.q, u)

\* Rounding to the unit 2^u: numerator and denominator are brought to it
RoundAtUnit(s, N, D, e, u) ==
    RoundQuotient(s,
                  BigDivMod(IF e - u >= 0 THEN BigShl(N, e - u) ELSE N,
                            IF e - u >= 0 THEN D ELSE BigShl(D, u - e)),
                  IF e - u >= 0 THEN D ELSE BigShl(D, u - e), u)

\* top is the position of the highest bit of the value
RoundAtTop(s, N, D, e, top) ==
    IF top >= MaxExp THEN Inf(s)
    ELSE IF top < MinExp - 1 THEN Zero(s)
    ELSE RoundAtUnit(s, N, D, e, Max(top - (MantBits - 1), MinExp))

RoundNearestEven(s, N, D, e) ==
    IF N = <<>> THEN Zero(s)
    ELSE IF D = BigOne /\ IsDouble(N, e) THEN Normal(s, N, e)
    ELSE RoundAtTop(s, N, D, e,
                    QuotientTop(N, D, BigBitLen(N) - BigBitLen(D)) + e)

\* float(n) of an int n
R(n) == IF n = 0 THEN Zero(0)
        ELSE Normal(IF n < 0 THEN 1 ELSE 0, BigOfNat(Abs(n)), 0)

\* The position above the highest bit of a finite a # 0
TopBit(a) == BigBitLen(Mant(a)) + Exp(a)

Xor(s, t) == (s + t) % 2

\* -a
RNeg(a) == IF IsNan(a) THEN a ELSE <<Kind(a), 1 - Sign(a), Mant(a), Exp(a)>>

\* The sum of (-1)^sa * A * 2^e0 and (-1)^sb * B * 2^e0, not both zero; c
\* compares A with B
AddAligned(sa, A, sb, B, e0, c) ==
    IF sa # sb /\ c = 0 THEN Zero(0)
    ELSE RoundNearestEven(IF sa = sb \/ c > 0 THEN sa ELSE sb,
                          IF sa = sb THEN BigAdd(A, B)
                          ELSE IF c > 0 THEN BigSub(A, B) ELSE BigSub(B, A),
                          BigOne, e0)

\* The sum of two finite a, b # 0, their mantissas brought to the exponent e0
AddFinite(a, b, e0) ==
    AddAligned(Sign(a), BigShl(Mant(a), Exp(a) - e0),
               Sign(b), BigShl(Mant(b), Exp(b) - e0), e0,
               BigCmp(BigShl(Mant(a), Exp(a) - e0), BigShl(Mant(b), Exp(b) - e0)))

\* a + b.  An operand more than 55 binary places below the other one does
\* not change it.
RAdd(a, b) ==
    IF IsNan(a) \/ IsNan(b) THEN Nan
    ELSE IF IsInf(a) THEN (IF IsInf(b) /\ Sign(a) # Sign(b) THEN Nan ELSE a)
    ELSE IF IsInf(b) THEN b
    ELSE IF IsZero(a) /\ IsZero(b)
    THEN Zero(IF Sign(a) = 1 /\ Sign(b) = 1 THEN 1 ELSE 0)
    ELSE IF IsZero(a) THEN b
    ELSE IF IsZero(b) THEN a
    ELSE IF TopBit(a) - TopBit(b) > MantBits + 2 THEN a
    ELSE IF TopBit(b) - TopBit(a) > MantBits + 2 THEN b
    ELSE AddFinite(a, b, Min(Exp(a), Exp(b)))

\* a - b
RSub(a, b) == RAdd(a, RNeg(b))

\* a * b
RMul(a, b) ==
    IF IsNan(a) \/ IsNan(b) THEN Nan
    ELSE IF (IsInf(a) /\ IsZero(b)) \/ (IsZero(a) /\ IsInf(b)) THEN Nan
    ELSE IF IsInf(a) \/ IsInf(b) THEN Inf(Xor(Sign(a), Sign(b)))
    ELSE RoundNearestEven(Xor(Sign(a), Sign(b)), BigMul(Mant(a), Mant(b)),
                          BigOne, Exp(a) + Exp(b))

\* a / b: Python raises ZeroDivisionError for every a when b is a zero
RDiv(a, b) ==
    IF IsZero(b) THEN ZeroDivisionError
    ELSE IF IsNan(a) \/ IsNan(b) THEN Nan
    ELSE IF IsInf(a) THEN (IF IsInf(b) THEN Nan ELSE Inf(Xor(Sign(a), Sign(b))))
    ELSE IF IsInf(b) THEN Zero(Xor(Sign(a), Sign(b)))
    ELSE RoundNearestEven(Xor(Sign(a), Sign(b)), Mant(a), Mant(b),
                          Exp(a) - Exp(b))

Signum(a) == IF IsZero(a) THEN 0 ELSE IF Sign(a) = 1 THEN -1 ELSE 1

\* -1, 0 or 1 as |a| is below, equal to or above |b|, for a, b # 0
MagCmp(a, b) ==
    IF IsInf(a) THEN (IF IsInf(b) THEN 0 ELSE 1)
    ELSE IF IsInf(b) THEN -1
    ELSE LET e0 == Min(Exp(a), Exp(b))
         IN  IF TopBit(a) < TopBit(b) THEN -1
             ELSE IF TopBit(a) > TopBit(b) THEN 1
             ELSE BigCmp(BigShl(Mant(a), Exp(a) - e0), BigShl(Mant(b), Exp(b) - e0))

\* The order of two floats that are no NaN; the two zeros are equal
RCmp(a, b) ==
    IF Signum(a) < Signum(b) THEN -1
    ELSE IF Signum(a) > Signum(b) THEN 1
    ELSE IF Signum(a) = 0 THEN 0
    ELSE Signum(a) * MagCmp(a, b)

\* a == b, a < b, a <= b: every comparison with a NaN is false
REq(a, b) == ~IsNan(a) /\ ~IsNan(b) /\ RCmp(a, b) = 0
RLt(a, b) == ~IsNan(a) /\ ~IsNan(b) /\ RCmp(a, b) < 0
RLeq(a, b) == ~IsNan(a) /\ ~IsNan(b) /\ RCmp(a, b) <= 0

\* min(a, b) and max(a, b): the first argument unless the second is
\* strictly smaller (larger)
RMin(a, b) == IF RLt(b, a) THEN b ELSE a
RMax(a, b) == IF RLt(a, b) THEN b ELSE a

\* line 41: (y - p1y) * (p2x - p1x) / (p2y - p1y) + p1x; the exception of the
\* division leaves the expression
PlusUnlessRaised(q, p1x) ==
    IF q = ZeroDivisionError THEN ZeroDivisionError ELSE RAdd(q, p1x)
XInters(x, y, p1x, p1y, p2x, p2y) ==
    PlusUnlessRaised(RDiv(RMul(RSub(y, p1y), RSub(p2x, p1x)), RSub(p2y, p1y)),
                     p1x)

\* line 37 (YAboveMinGe: the faulty variant y >= min(p1y, p2y))
YAboveMinGe(y, p1y, p2y) == RLeq(RMin(p1y, p2y), y)
YAboveMin(y, p1y, p2y) == RLt(RMin(p1y, p2y), y)

\* line 38
YUptoMax(y, p1y, p2y) == RLeq(y, RMax(p1y, p2y))

\* line 39 (XUptoMaxLt: the faulty variant x < max(p1x, p2x))
XUptoMaxLt(x, p1x, p2x) == RLt(x, RMax(p1x, p2x))
XUptoMax(x, p1x, p2x) == RLeq(x, RMax(p1x, p2x))

\* lines 37-39: the three nested conditions under which lines 40-43 run
Guards(x, y, a, b) ==
    /\ YAboveMin(y, a[2], b[2])
    /\ YUptoMax(y, a[2], b[2])
    /\ XUptoMax(x, a[1], b[1])

\* line 35: the loop runs for i = 1 .. n, so it ends when i = n + 1
\* (LoopEndOpen: the faulty variant range(1, n), which leaves the ring open)
LoopEndOpen(n) == n
LoopEnd(n) == n + 1

\* One iteration of the loop, lines 36-44, on the locals
\* ls = [inside, p1, xinters, err] with p2 the vertex read on line 36.
\* err: line 41 raised ZeroDivisionError, or line 42 read xinters before any
\* assignment (UnboundLocalError).
\* lines 42-44, xi being the value of xinters after lines 40-41
EdgeToggle(ls, p2, x, xi) ==
    IF xi = ZeroDivisionError
    THEN [ls EXCEPT !.err = TRUE]
    ELSE IF REq(ls.p1[1], p2[1])
    THEN [inside |-> ~ls.inside, p1 |-> p2, xinters |-> xi, err |-> FALSE]
    ELSE IF xi = Unassigned
    THEN [ls EXCEPT !.err = TRUE]
    ELSE IF RLeq(x, xi)
    THEN [inside |-> ~ls.inside, p1 |-> p2, xinters |-> xi, err |-> FALSE]
    ELSE [inside |-> ls.inside, p1 |-> p2, xinters |-> xi, err |-> FALSE]

EdgeStep(ls, p2, x, y) ==
    IF ~Guards(x, y, ls.p1, p2)
    THEN [ls EXCEPT !.p1 = p2]
    ELSE EdgeToggle(ls, p2, x,
                    IF ~REq(ls.p1[2], p2[2])
                    THEN XInters(x, y, ls.p1[1], ls.p1[2], p2[1], p2[2])
                    ELSE ls.xinters)

\* lines 30-34: the locals before the loop
\* (LoopStartLast: the faulty variant p1 = coordinates[-1])
LoopStartLast(coords) ==
    [inside |-> FALSE, p1 |-> coords[Len(coords)], xinters |-> Unassigned,
     err |-> FALSE]
LoopStart(coords) ==
    [inside |-> FALSE, p1 |-> coords[1], xinters |-> Unassigned, err |-> FALSE]

\* lines 35-44 from iteration k on
RECURSIVE LoopFrom(_, _, _, _, _)
LoopFrom(ls, k, coords, x, y) ==
    IF ls.err \/ k >= LoopEnd(Len(coords))
    THEN ls
    ELSE LoopFrom(EdgeStep(ls, coords[(k % Len(coords)) + 1], x, y),
                  k + 1, coords, x, y)

\* contains_point as a whole: the locals when the loop is left, whether it
\* raises, and the value it returns
ContainsPointRun(coords, pt) ==
    LoopFrom(LoopStart(coords), 1, coords, pt[1], pt[2])
ContainsPointRaises(coords, pt) == ContainsPointRun(coords, pt).err
ContainsPoint(coords, pt) == ContainsPointRun(coords, pt).inside

SeqsOf(S, n) == [1 .. n -> S]

\* The rings and test points of the geometry enumeration: every triangle over
\* a grid of integers and every longer ring over six vertices of that grid,
\* with the points of a wider grid; the square with the integer points around
\* it; and a triangle of decimal vertices with decimal points, for which
\* line 41 rounds.
RingCoords == {0, 1, 2}
TestCoords == {-1, 0, 1, 2}
V(x, y) == <<R(x), R(y)>>
Square == <<V(0, 0), V(4, 0), V(4, 4), V(0, 4)>>
SquareTestCoords == -1 .. 5

\* float("0.1"), float("0.2"), ...: n / 10 of two ints is the double nearest
\* to the decimal
Tenth(n) == RDiv(R(n), R(10))
DecimalRing ==
    << <<Tenth(0), Tenth(2)>>, <<Tenth(6), Tenth(8)>>, <<Tenth(16), Tenth(2)>> >>
DecimalPoints ==
    {<<Tenth(x), Tenth(y)>> : x \in {3, 6, 11}, y \in {2, 5, 8}}

Vertices(S) == {V(x, y) : x \in S, y \in S}

LongRingVertices == {V(0, 0), V(1, 0), V(2, 0), V(1, 1), V(2, 2), V(0, 2)}
RingVertices(n) == IF n = 3 THEN Vertices(RingCoords) ELSE LongRingVertices

Rings == UNION {SeqsOf(RingVertices(n), n) : n \in 3 .. MaxRing}

GeomInit ==
    /\ \/ /\ coordinates \in Rings
          /\ point \in Vertices(TestCoords)
       \/ /\ coordinates = Square
          /\ point \in Vertices(SquareTestCoords)
       \/ /\ coordinates = DecimalRing
          /\ point \in DecimalPoints
    /\ pc = "cp_loop"
    /\ i = 1
    /\ inside = LoopStart(coordinates).inside
    /\ p1 = LoopStart(coordinates).p1
    /\ xinters = LoopStart(coordinates).xinters
    /\ polygons = Idle /\ result = Idle /\ raw = Idle /\ doc = Idle
    /\ csvFile = Idle /\ kmlOk = FALSE /\ df = Idle /\ outputOk = TRUE
    /\ outputFile = Idle

\* The locals ls after one iteration become the state
CpAssign(ls) ==
    /\ inside' = ls.inside
    /\ p1' = ls.p1
    /\ xinters' = ls.xinters
    /\ pc' = IF ls.err THEN "cp_error" ELSE "cp_loop"
    /\ i' = IF ls.err THEN i ELSE i + 1

\* lines 35-44: one iteration
CpIterate ==
    /\ pc = "cp_loop"
    /\ i < LoopEnd(Len(coordinates))
    /\ CpAssign(EdgeStep([inside |-> inside, p1 |-> p1, xinters |-> xinters,
                          err |-> FALSE],
                         coordinates[(i % Len(coordinates)) + 1],
                         point[1], point[2]))
    /\ UNCHANGED <<coordinates, point, polygons, result, raw, doc, csvFile,
                   kmlOk, outputOk, df, outputFile>>

\* line 46
CpReturn ==
    /\ pc = "cp_loop"
    /\ i >= LoopEnd(Len(coordinates))
    /\ pc' = "cp_done"
    /\ result' = inside
    /\ UNCHANGED <<coordinates, point, i, inside, p1, xinters, polygons, raw,
                   doc, csvFile, kmlOk, outputOk, df, outputFile>>

GeomNext == CpIterate \/ CpReturn

SpecGeom == GeomInit /\ [][GeomNext]_vars

-----------------------------------------------------------------------------
(* Properties of contains_point, checked under SpecGeom *)

\* The edge examined by iteration k: from vertex k to vertex k + 1, the last
\* one wrapping to the first.
EdgeFrom(coords, k) == coords[((k - 1) % Len(coords)) + 1]
EdgeTo(coords, k) == coords[(k % Len(coords)) + 1]

\* The crossing rule of an edge (a, b) for the test point (x, y):
\* y > min(p1y, p2y) and y <= max(p1y, p2y) and x <= max(p1x, p2x) and
\* (p1x = p2x or x <= (y - p1y) * (p2x - p1x) / (p2y - p1y) + p1x)
CrossingRule(x, y, a, b) ==
    /\ RLt(RMin(a[2], b[2]), y)
    /\ RLeq(y, RMax(a[2], b[2]))
    /\ RLeq(x, RMax(a[1], b[1]))
    /\ \/ REq(a[1], b[1])
       \/ LET xi == XInters(x, y, a[1], a[2], b[1], b[2])
          IN  xi # ZeroDivisionError /\ RLeq(x, xi)

CrossingEdges(coords, pt, upto) ==
    {k \in 1 .. upto :
        CrossingRule(pt[1], pt[2], EdgeFrom(coords, k), EdgeTo(coords, k))}

\* The int a float of the integer grids stands for
IsIntegral(a) ==
    Kind(a) = "finite" /\ (IsZero(a) \/ (Exp(a) >= 0 /\ Len(Mant(a)) = 1))
IntOf(a) ==
    IF IsZero(a) THEN 0 ELSE (1 - 2 * Sign(a)) * Mant(a)[1] * Pow2(Exp(a))
IntPt(v) == <<IntOf(v[1]), IntOf(v[2])>>
OnIntegers(coords, pt) ==
    /\ IsIntegral(pt[1]) /\ IsIntegral(pt[2])
    /\ \A k \in 1 .. Len(coords) : IsIntegral(coords[k][1]) /\ IsIntegral(coords[k][2])

\* x <= (y - p1y) * (p2x - p1x) / (p2y - p1y) + p1x over the integers,
\* without a division
LeqIntersection(x, y, a, b) ==
    LET d == b[2] - a[2]
    IN  IF d > 0 THEN (x - a[1]) * d <= (y - a[2]) * (b[1] - a[1])
        ELSE IF d < 0 THEN (x - a[1]) * d >= (y - a[2]) * (b[1] - a[1])
        ELSE FALSE

\* The crossing rule over the integers
IntCrossingRule(x, y, a, b) ==
    /\ y > Min(a[2], b[2])
    /\ y <= Max(a[2], b[2])
    /\ x <= Max(a[1], b[1])
    /\ (a[1] = b[1] \/ LeqIntersection(x, y, a, b))

IntCrossingEdges(coords, pt, upto) ==
    {k \in 1 .. upto :
        IntCrossingRule(IntPt(pt)[1], IntPt(pt)[2],
                        IntPt(EdgeFrom(coords, k)), IntPt(EdgeTo(coords, k)))}

Odd(n) == n % 2 = 1

StrictlyInsideSquare(pt) ==
    LET q == IntPt(pt) IN 0 < q[1] /\ q[1] < 4 /\ 0 < q[2] /\ q[2] < 4
StrictlyOutsideSquare(pt) ==
    LET q == IntPt(pt) IN q[1] < 0 \/ q[1] > 4 \/ q[2] < 0 \/ q[2] > 4

\* C1: for the square [(0,0),(4,0),(4,4),(0,4)], contains_point returns true
\* for every integer point strictly inside and false for every integer point
\* strictly outside.
C1_SquareInsideOutside ==
    (pc = "cp_done" /\ coordinates = Square) =>
        /\ StrictlyInsideSquare(point) => result = TRUE
        /\ StrictlyOutsideSquare(point) => result = FALSE

C1_Witness ==
    /\ pc = "cp_done" /\ coordinates = Square
    /\ point = V(2, 2) /\ result = TRUE

Rotate(coords, k) ==
    [j \in 1 .. Len(coords) |-> coords[((j - 1 + k) % Len(coords)) + 1]]

OnVertex(coords, pt) == \E j \in 1 .. Len(coords) : coords[j] = pt

\* C2: contains_point gives the same boolean for a ring and for each of its
\* cyclic rotations, for every test point, points on an edge or a vertex
\* included.
C2_RotationInvariant ==
    pc = "cp_done" =>
        \A k \in 0 .. Len(coordinates) - 1 :
            LET run == ContainsPointRun(Rotate(coordinates, k), point)
            IN  ~run.err /\ run.inside = result

C2_Witness ==
    /\ pc = "cp_done" /\ result = TRUE
    /\ OnVertex(coordinates, point)
    /\ Rotate(coordinates, 1) # coordinates
    /\ ContainsPoint(Rotate(coordinates, 1), point) = TRUE

\* The points of DecimalPoints for which contains_point of DecimalRing is
\* true: those at height 0.5.  (0.3, 0.5) lies on the edge from (0, 0.2) to
\* (0.6, 0.8), where line 41 gives 0.29999999999999993, below x.
DecimalInside == {<<Tenth(x), Tenth(5)>> : x \in {3, 6, 11}}

\* C9: contains_point returns true exactly when the number of edges that
\* satisfy the crossing rule is odd, the rule being evaluated as line 41 and
\* the comparisons evaluate it, on floats; after k iterations inside is the
\* parity of the crossings among the first k edges, it starts from false, and
\* the loop ends after each of the n edges was examined once.  On the integer
\* grids, where no operation rounds, the rule is the one over the integers;
\* on the decimal triangle the result is the one of DecimalInside.
C9_CrossingParity ==
    /\ pc # "cp_error"
    /\ pc = "cp_loop" =>
          /\ i \in 1 .. Len(coordinates) + 1
          /\ p1 = EdgeFrom(coordinates, i)
          /\ inside = Odd(Cardinality(CrossingEdges(coordinates, point, i - 1)))
    /\ pc = "cp_done" =>
          LET crossing == CrossingEdges(coordinates, point, Len(coordinates))
          IN  /\ i = Len(coordinates) + 1
              /\ result = Odd(Cardinality(crossing))
              /\ OnIntegers(coordinates, point) =>
                    crossing = IntCrossingEdges(coordinates, point, Len(coordinates))
              /\ coordinates = DecimalRing => result = (point \in DecimalInside)

\* the decimal point on the sloped edge: the rounded intersection is left of
\* it, so the second edge alone is crossed
C9_Witness ==
    /\ pc = "cp_done" /\ result = TRUE
    /\ coordinates = DecimalRing
    /\ point = <<Tenth(3), Tenth(5)>>
    /\ CrossingEdges(coordinates, point, Len(coordinates)) = {2}
    /\ RLt(XInters(point[1], point[2], Tenth(0), Tenth(2), Tenth(6), Tenth(8)),
           point[1])

Horizontal(a, b) == REq(a[2], b[2])

\* C10: a horizontal edge never toggles the result: whenever the conditions
\* of lines 37-39 let line 42 run, the edge is not horizontal, so line 41
\* assigned xinters in that same iteration, xinters is never read unassigned
\* and the division is never by zero.
C10_HorizontalNeverToggles ==
    /\ pc # "cp_error"
    /\ (pc = "cp_loop" /\ i <= Len(coordinates)) =>
          LET a == p1
              b == EdgeTo(coordinates, i)
              ls == [inside |-> inside, p1 |-> p1, xinters |-> xinters,
                     err |-> FALSE]
          IN  /\ Guards(point[1], point[2], a, b) => ~Horizontal(a, b)
              /\ Horizontal(a, b) =>
                    /\ EdgeStep(ls, b, point[1], point[2]).inside = inside
                    /\ EdgeStep(ls, b, point[1], point[2]).xinters = xinters
    /\ (pc = "cp_loop" /\ i > 1) =>
          LET a == EdgeFrom(coordinates, i - 1)
              b == EdgeTo(coordinates, i - 1)
          IN  Guards(point[1], point[2], a, b) =>
                 /\ ~Horizontal(a, b)
                 /\ xinters = XInters(point[1], point[2], a[1], a[2], b[1], b[2])

\* A horizontal, non-degenerate edge at the height of the test point, with the
\* point not to its right, has been examined while xinters was unassigned.
C10_Witness ==
    /\ pc = "cp_loop" /\ i = 2
    /\ Horizontal(coordinates[1], coordinates[2])
    /\ coordinates[1][2] = point[2]
    /\ coordinates[1][1] # coordinates[2][1]
    /\ RLeq(point[1], RMax(coordinates[1][1], coordinates[2][1]))
    /\ xinters = Unassigned /\ inside = FALSE


-----------------------------------------------------------------------------
(* Strings and float() *)

\* pandas' missing value (NaN), what read_csv makes of an empty field
Missing == <<"NaN">>

\* The whitespace of str.strip(), str.split() and float()
Whitespace == {" ", "\t", "\n", "\r", "\f"}
IsSpace(c) == c \in Whitespace

Digits == {"0", "1", "2", "3", "4", "5", "6", "7", "8", "9"}
IsDigit(c) == c \in Digits

DigitVal(c) ==
    CASE c = "0" -> 0 [] c = "1" -> 1 [] c = "2" -> 2 [] c = "3" -> 3
      [] c = "4" -> 4 [] c = "5" -> 5 [] c = "6" -> 6 [] c = "7" -> 7
      [] c = "8" -> 8 [] c = "9" -> 9

\* str.strip()
NonSpaces(s) == {k \in 1 .. Len(s) : ~IsSpace(s[k])}
LStrip(s) ==
    IF NonSpaces(s) = {} THEN <<>> ELSE SubSeq(s, MinOf(NonSpaces(s)), Len(s))
RStrip(s) ==
    IF NonSpaces(s) = {} THEN <<>> ELSE SubSeq(s, 1, MaxOf(NonSpaces(s)))
Strip(s) == RStrip(LStrip(s))

\* str.split(sep): every occurrence of sep splits, empty pieces are kept
RECURSIVE SplitOn(_, _)
SplitOn(s, sep) ==
    IF \A k \in 1 .. Len(s) : s[k] # sep
    THEN <<s>>
    ELSE LET k == CHOOSE k \in 1 .. Len(s) :
                      s[k] = sep /\ \A j \in 1 .. k - 1 : s[j] # sep
         IN  <<SubSeq(s, 1, k - 1)>> \o SplitOn(SubSeq(s, k + 1, Len(s)), sep)

\* str.split(): runs of whitespace split, no empty piece is produced
RECURSIVE SplitWhitespace(_)
SplitWhitespace(s) ==
    LET t == LStrip(s)
    IN  IF t = <<>> THEN <<>>
        ELSE IF \A k \in 1 .. Len(t) : ~IsSpace(t[k]) THEN <<t>>
        ELSE LET k == CHOOSE k \in 1 .. Len(t) :
                          IsSpace(t[k]) /\ \A j \in 1 .. k - 1 : ~IsSpace(t[j])
             IN  <<SubSeq(t, 1, k - 1)>> \o SplitWhitespace(SubSeq(t, k, Len(t)))

Count(s, S) == Cardinality({k \in 1 .. Len(s) : s[k] \in S})

\* float(str): the literal is the str without surrounding whitespace; an
\* underscore is accepted between two digits only and is passed over; then
\* comes an optional sign and inf, infinity or nan in any case, or a decimal
\* number: digits with at most one point, at least one digit, and an optional
\* exponent e or E with an optional sign and at least one digit.
Lower(c) ==
    CASE c = "A" -> "a" [] c = "E" -> "e" [] c = "F" -> "f" [] c = "I" -> "i"
      [] c = "N" -> "n" [] c = "T" -> "t" [] c = "Y" -> "y" [] OTHER -> c
LowerAll(s) == <<>> \o [k \in 1 .. Len(s) |-> Lower(s[k])]

UnderscoresOk(t) ==
    \A k \in 1 .. Len(t) :
        t[k] = "_" => /\ k > 1 /\ t[k - 1] \in Digits
                      /\ k < Len(t) /\ t[k + 1] \in Digits
NotUnderscore(c) == c # "_"
Literal(tok) == SelectSeq(Strip(tok), NotUnderscore)

Signs == {"+", "-"}
Unsigned(lit) == IF lit # <<>> /\ lit[1] \in Signs THEN Tail(lit) ELSE lit
SignOf(lit) == IF lit # <<>> /\ lit[1] = "-" THEN 1 ELSE 0

InfLiterals == { <<"i", "n", "f">>, <<"i", "n", "f", "i", "n", "i", "t", "y">> }
NanLiteral == <<"n", "a", "n">>

\* The position of the first e or E, 0 without one
ExpAt(u) ==
    IF \A k \in 1 .. Len(u) : Lower(u[k]) # "e" THEN 0
    ELSE CHOOSE k \in 1 .. Len(u) :
             Lower(u[k]) = "e" /\ \A j \in 1 .. k - 1 : Lower(u[j]) # "e"
Significand(u) == IF ExpAt(u) = 0 THEN u ELSE SubSeq(u, 1, ExpAt(u) - 1)
Exponent(u) == IF ExpAt(u) = 0 THEN <<>> ELSE SubSeq(u, ExpAt(u) + 1, Len(u))

SignificandOk(m) ==
    /\ \A k \in 1 .. Len(m) : m[k] \in Digits \cup {"."}
    /\ Count(m, {"."}) <= 1
    /\ Count(m, Digits) >= 1
ExponentOk(x) ==
    LET d == Unsigned(x)
    IN  d # <<>> /\ \A k \in 1 .. Len(d) : d[k] \in Digits

DecimalOk(u) ==
    /\ SignificandOk(Significand(u))
    /\ ExpAt(u) # 0 => ExponentOk(Exponent(u))

\* Whether float(tok) returns; it raises ValueError otherwise
FloatOk(tok) ==
    LET u == Unsigned(Literal(tok))
    IN  /\ UnderscoresOk(Strip(tok))
        /\ \/ LowerAll(u) \in InfLiterals
           \/ LowerAll(u) = NanLiteral
           \/ DecimalOk(u)

RECURSIVE BigPow10(_)
BigPow10(k) ==
    IF k = 0 THEN BigOne
    ELSE LET h == BigPow10(k \div 2)
         IN  IF k % 2 = 0 THEN BigMul(h, h) ELSE BigMulSmall(BigMul(h, h), 10)

\* The digits d[lo .. hi] read as one natural
RECURSIVE BigOfDigits(_, _, _)
BigOfDigits(d, lo, hi) ==
    IF lo > hi THEN <<>>
    ELSE IF lo = hi THEN BigOfNat(DigitVal(d[lo]))
    ELSE LET mid == (lo + hi) \div 2
         IN  BigAdd(BigMul(BigOfDigits(d, lo, mid), BigPow10(hi - mid)),
                    BigOfDigits(d, mid + 1, hi))

\* The digits of the significand, the point passed over; how many there are
\* from the first one that is not 0; how many follow the point
SignificandDigits(m) == SelectSeq(m, IsDigit)
SignificantDigits(m) ==
    LET d == SignificandDigits(m)
        nz == {k \in 1 .. Len(d) : d[k] # "0"}
    IN  IF nz = {} THEN 0 ELSE Len(d) - MinOf(nz) + 1
Decimals(m) ==
    IF Count(m, {"."}) = 0 THEN 0
    ELSE Len(m) - (CHOOSE k \in 1 .. Len(m) : m[k] = ".")

\* The exponent, an int of any size: <<sign, magnitude>>, sign 1 for a
\* negative one, the magnitude a natural in base 2^LimbBits; no exponent is 0
ExponentValue(x) ==
    <<SignOf(x), BigOfDigits(Unsigned(x), 1, Len(Unsigned(x)))>>

\* The int of a natural X below 2^31
RECURSIVE NatOfBig(_)
NatOfBig(X) == IF X = <<>> THEN 0 ELSE X[1] + Base * NatOfBig(Tail(X))

\* 10^309 is above every double and 10^-324 below half the least one
MaxDecExp == 309
MinDecExp == -324

\* The double nearest to (-1)^s * N * 10^dexp, N a natural of nd significant
\* digits
ScaledValue(s, N, nd, dexp) ==
    IF dexp + nd - 1 >= MaxDecExp THEN Inf(s)
    ELSE IF dexp + nd <= MinDecExp THEN Zero(s)
    ELSE IF dexp >= 0 THEN RoundNearestEven(s, BigMul(N, BigPow10(dexp)), BigOne, 0)
    ELSE RoundNearestEven(s, N, BigPow10(-dexp), 0)

\* The double nearest to (-1)^s * N * 10^(E - dec), N > 0 a natural of nd
\* significant digits, dec of them after the point, E the exponent.  With
\* E >= dec + 309 the value is 10^309 at least, an infinity; with
\* E <= -(nd + 324) it is below 10^-324, a zero; every other E is an int of
\* fewer digits than the literal has characters, plus 3.
DecimalValue(s, N, nd, dec, E) ==
    IF N = <<>> THEN Zero(s)
    ELSE IF E[1] = 0 /\ BigCmp(E[2], BigOfNat(dec + MaxDecExp)) >= 0 THEN Inf(s)
    ELSE IF E[1] = 1 /\ BigCmp(E[2], BigOfNat(nd - MinDecExp)) >= 0 THEN Zero(s)
    ELSE ScaledValue(s, N, nd, (1 - 2 * E[1]) * NatOfBig(E[2]) - dec)

\* float(tok), for FloatOk(tok)
FloatValue(tok) ==
    LET lit == Literal(tok)
        u == Unsigned(lit)
        m == Significand(u)
        d == SignificandDigits(m)
    IN  IF LowerAll(u) \in InfLiterals THEN Inf(SignOf(lit))
        ELSE IF LowerAll(u) = NanLiteral THEN Nan
        ELSE DecimalValue(SignOf(lit), BigOfDigits(d, 1, Len(d)),
                          SignificantDigits(m), Decimals(m),
                          ExponentValue(Exponent(u)))

-----------------------------------------------------------------------------
(* Point and parse_client_coordinates *)

\* Point.__init__(lon, lat)
Point(lon, lat) == <<lon, lat>>
Lon(pt) == pt[1]
Lat(pt) == pt[2]

\* line 91
IsNa(v) == v = Missing

\* line 94: the unpacking into (lat, lon) succeeds only for two items
\* (TokenCountAtLeast: the faulty variant that reads the first two items)
TokenCountAtLeast(toks) == Len(toks) >= 2
TokenCountOk(toks) == Len(toks) = 2

\* line 95, after lat, lon = map(float, ...)
\* (ParsedPointUnswapped: the faulty variant Point(lat, lon))
ParsedPointUnswapped(lat, lon) == Point(lat, lon)
ParsedPoint(lat, lon) == Point(lon, lat)

\* lines 90-98: every exception of lines 91-95 ends in return None
ParseClientCoordinates(coord_string) ==
    IF IsNa(coord_string) THEN None
    ELSE LET toks == SplitOn(coord_string, ",")
         IN  IF TokenCountOk(toks) /\ FloatOk(toks[1]) /\ FloatOk(toks[2])
             THEN ParsedPoint(FloatValue(toks[1]), FloatValue(toks[2]))
             ELSE None

\* The arguments of the parser enumeration: every str over RawAlphabet up to
\* MaxRaw characters, the missing value, and strs in the other forms float()
\* accepts or refuses: an exponent, a plus sign, nan and inf, an underscore
\* between digits or after them, a tab, a word.
RawAlphabet == {"1", "2", ".", "-", ",", "e", " "}

RawStrings == UNION {SeqsOf(RawAlphabet, n) : n \in 0 .. MaxRaw}

RawExponent == <<"1", "e", "2", ",", "5">>
RawUpperExponent == <<"1", "E", "-", "1", ",", "2">>
RawPlus == <<"+", "1", ",", "2">>
RawNan == <<"n", "a", "n", ",", "1">>
RawInf == <<"i", "n", "f", ",", "1">>
RawInfinity == <<"-", "I", "n", "f", "i", "n", "i", "t", "y", ",", "2">>
RawUnderscore == <<"1", "_", "0", ",", "2">>
RawTab == <<"\t", "2", ",", "1", "\n">>
RawBadUnderscore == <<"1", "_", ",", "2">>
RawBadExponent == <<"1", "e", ",", "2">>
RawBadSign == <<"+", "-", "1", ",", "2">>
RawWord == <<"x", ",", "1">>
RawNumeric ==
    {RawExponent, RawUpperExponent, RawPlus, RawNan, RawInf, RawInfinity,
     RawUnderscore, RawTab}
RawNonNumeric == {RawBadUnderscore, RawBadExponent, RawBadSign, RawWord}

ParseInit ==
    /\ raw \in RawStrings \cup RawNumeric \cup RawNonNumeric \cup {Missing}
    /\ pc = "parse_start"
    /\ result = Idle
    /\ coordinates = Idle /\ point = Idle /\ i = 0 /\ inside = FALSE
    /\ p1 = Idle /\ xinters = Unassigned /\ polygons = Idle /\ doc = Idle
    /\ csvFile = Idle /\ kmlOk = FALSE /\ df = Idle /\ outputOk = TRUE
    /\ outputFile = Idle

\* parse_client_coordinates(raw)
ParseCall ==
    /\ pc = "parse_start"
    /\ result' = ParseClientCoordinates(raw)
    /\ pc' = "parse_done"
    /\ UNCHANGED <<coordinates, point, i, inside, p1, xinters, polygons, raw,
                   doc, csvFile, kmlOk, outputOk, df, outputFile>>

ParseNext == ParseCall

SpecParse == ParseInit /\ [][ParseNext]_vars

\* raw is a \o "," \o b for two comma-free tokens a and b that float() accepts
TwoNumericTokens(s, a, b) ==
    /\ s = a \o <<",">> \o b
    /\ Count(a, {","}) = 0 /\ Count(b, {","}) = 0
    /\ FloatOk(a) /\ FloatOk(b)

\* What parse_client_coordinates returns for the strs of RawNumeric, as
\* (lat, lon)
LatLonOf(s) ==
    CASE s = RawExponent -> <<R(100), R(5)>>
      [] s = RawUpperExponent -> <<Tenth(1), R(2)>>
      [] s = RawPlus -> <<R(1), R(2)>>
      [] s = RawNan -> <<Nan, R(1)>>
      [] s = RawInf -> <<Inf(0), R(1)>>
      [] s = RawInfinity -> <<Inf(1), R(2)>>
      [] s = RawUnderscore -> <<R(10), R(2)>>
      [] s = RawTab -> <<R(2), R(1)>>

\* C4: for a raw string "a,b" of two numeric tokens, read as
\* latitude,longitude, the result is a Point whose lon equals b and whose lat
\* equals a.
C4_ParseSwapsOrder ==
    (pc = "parse_done" /\ raw # Missing) =>
        /\ \A k \in 1 .. Len(raw) :
              LET a == SubSeq(raw, 1, k - 1)
                  b == SubSeq(raw, k + 1, Len(raw))
              IN  TwoNumericTokens(raw, a, b) =>
                      /\ result # None
                      /\ Lon(result) = FloatValue(b)
                      /\ Lat(result) = FloatValue(a)
        /\ raw \in RawNumeric =>
              /\ result # None
              /\ Lon(result) = LatLonOf(raw)[2]
              /\ Lat(result) = LatLonOf(raw)[1]
        /\ raw \in RawNonNumeric => result = None

C4_Witness ==
    /\ pc = "parse_done"
    /\ raw = <<"1", ".", "2", ",", "2">>
    /\ result = Point(R(2), RDiv(R(12), R(10)))


-----------------------------------------------------------------------------
(* point_in_any_polygon *)

\* lines 105-108 from polygon k on: [raised, value]
RECURSIVE ZoneLoop(_, _, _)
\* lines 106-107, run being the run of contains_point on polygon k
ZoneVisit(run, pt, polys, k) ==
    IF run.err THEN [raised |-> TRUE, value |-> FALSE]
    ELSE IF run.inside THEN [raised |-> FALSE, value |-> TRUE]
    ELSE ZoneLoop(pt, polys, k + 1)
ZoneLoop(pt, polys, k) ==
    IF k > Len(polys) THEN [raised |-> FALSE, value |-> FALSE]
    ELSE ZoneVisit(ContainsPointRun(polys[k], pt), pt, polys, k)

\* The faulty variant with "return False" inside the loop: only the first
\* polygon is examined
PointInFirstPolygon(pt, polys) ==
    IF pt = None \/ polys = <<>> THEN [raised |-> FALSE, value |-> FALSE]
    ELSE LET run == ContainsPointRun(polys[1], pt)
         IN  [raised |-> run.err, value |-> run.inside]

\* lines 100-108
PointInAnyPolygon(pt, polys) ==
    IF pt = None THEN [raised |-> FALSE, value |-> FALSE]
    ELSE ZoneLoop(pt, polys, 1)

ZoneA == <<V(0, 0), V(2, 0), V(2, 2), V(0, 2)>>
ZoneB == <<V(3, 0), V(5, 0), V(5, 2), V(3, 2)>>
ZoneC == <<V(1, 1), V(4, 1), V(1, 3)>>
ZonePolygons == {ZoneA, ZoneB, ZoneC}
ZonePoints == {V(x, y) : x \in -1 .. 6, y \in -1 .. 4}

ZoneInit ==
    /\ point \in ZonePoints \cup {None}
    /\ polygons \in UNION {SeqsOf(ZonePolygons, n) : n \in 0 .. MaxPolys}
    /\ pc = "zone_start"
    /\ result = Idle
    /\ coordinates = Idle /\ i = 0 /\ inside = FALSE /\ p1 = Idle
    /\ xinters = Unassigned /\ raw = Idle /\ doc = Idle
    /\ csvFile = Idle /\ kmlOk = FALSE /\ df = Idle /\ outputOk = TRUE
    /\ outputFile = Idle

\* The outcome r of the call becomes the state
ZoneReturn(r) ==
    /\ pc' = IF r.raised THEN "zone_error" ELSE "zone_done"
    /\ result' = r.value

\* point_in_any_polygon(point, polygons)
ZoneCall ==
    /\ pc = "zone_start"
    /\ ZoneReturn(PointInAnyPolygon(point, polygons))
    /\ UNCHANGED <<coordinates, point, i, inside, p1, xinters, polygons, raw,
                   doc, csvFile, kmlOk, outputOk, df, outputFile>>

ZoneNext == ZoneCall

SpecZone == ZoneInit /\ [][ZoneNext]_vars

\* C3: point_in_any_polygon returns true if and only if the point is not None
\* and contains_point is true for at least one polygon of the list: false for
\* None, false for an empty list, true inside either of two disjoint
\* polygons and false inside neither.
C3_AnyPolygon ==
    /\ pc # "zone_error"
    /\ pc = "zone_done" =>
          result = (/\ point # None
                    /\ \E k \in 1 .. Len(polygons) :
                          ContainsPoint(polygons[k], point))

\* a point inside the second of two disjoint polygons only
C3_Witness ==
    /\ pc = "zone_done"
    /\ polygons = <<ZoneA, ZoneB>> /\ point = V(4, 1)
    /\ ~ContainsPoint(ZoneA, point) /\ ContainsPoint(ZoneB, point)
    /\ result = TRUE

-----------------------------------------------------------------------------
(* parse_kml_coordinates and load_kml_polygons *)

\* line 56
EnoughParts(parts) == Len(parts) >= 2

\* lines 55-61 for one token: the vertex appended, or None when the token is
\* passed over (too few parts, or float() raises ValueError)
ParseKmlToken(coord_set) ==
    LET parts == SplitOn(coord_set, ",")
    IN  IF EnoughParts(parts) /\ FloatOk(parts[1]) /\ FloatOk(parts[2])
        THEN <<FloatValue(parts[1]), FloatValue(parts[2])>>
        ELSE None

RECURSIVE KmlCoordsOf(_)
\* lines 59-61: the vertex v of the first token is appended unless it is None
KmlAppend(v, rest) == (IF v = None THEN <<>> ELSE <<v>>) \o KmlCoordsOf(rest)
KmlCoordsOf(toks) ==
    IF toks = <<>> THEN <<>>
    ELSE KmlAppend(ParseKmlToken(toks[1]), Tail(toks))

\* lines 48-62
ParseKmlCoordinates(coord_string) ==
    KmlCoordsOf(SplitWhitespace(Strip(coord_string)))

\* line 80 (KeepRingOver3: the faulty variant len(coords) > 3)
KeepRingOver3(coords) == Len(coords) > 3
KeepRing(coords) == Len(coords) >= 3

\* A Polygon element of the document is <<kind, tokens>>: "none" has no
\* outerBoundaryIs//coordinates element, "empty" has one without text, "text"
\* has one whose text is the tokens, each on a line of its own after a tab,
\* and a last line of one blank.
RECURSIVE JoinTokens(_)
JoinTokens(toks) ==
    IF toks = <<>> THEN <<"\n", " ">>
    ELSE <<"\n", "\t">> \o toks[1] \o JoinTokens(Tail(toks))

\* line 77-78: outer_boundary.text, None when there is no element or no text
OuterText(elem) ==
    IF elem[1] = "text" THEN JoinTokens(elem[2]) ELSE None

\* lines 75-81 from element k on
RECURSIVE LoadFrom(_, _)
\* lines 80-81: the ring of coords is appended when it is long enough
LoadRing(coords, d, k) ==
    (IF KeepRing(coords) THEN <<coords>> ELSE <<>>) \o LoadFrom(d, k + 1)
\* lines 77-79: an element without ring or text is passed over
LoadText(text, d, k) ==
    IF text = None THEN LoadFrom(d, k + 1)
    ELSE LoadRing(ParseKmlCoordinates(text), d, k)
LoadFrom(d, k) ==
    IF k > Len(d) THEN <<>> ELSE LoadText(OuterText(d[k]), d, k)

\* lines 64-83, for a document ET.parse accepts
LoadKmlPolygons(d) == LoadFrom(d, 1)

TokLonLat == <<"1", ",", "2">>
TokElevation == <<"2", ",", "1", ",", "5">>
TokExponent == <<"1", "e", "2", ",", "+", "5">>
TokNan == <<"n", "a", "n", ",", "1">>
TokNonNumeric == <<"x", ",", "1">>
TokBadExponent == <<"1", "e", ",", "2">>
TokOnePart == <<"1">>
KmlTokens ==
    {TokLonLat, TokElevation, TokExponent, TokNan, TokNonNumeric,
     TokBadExponent, TokOnePart}
PairTokens == {TokLonLat, TokNonNumeric}

ElementsOver(T) ==
    {<<"none", <<>>>>, <<"empty", <<>>>>}
        \cup {<<"text", t>> : t \in UNION {SeqsOf(T, n) : n \in 0 .. MaxTokens}}

\* Documents of no Polygon element, of one element over every kind of token,
\* and of two elements over a well-formed and a non-numeric token.
KmlDocs ==
    {<<>>} \cup {<<e>> : e \in ElementsOver(KmlTokens)}
           \cup (ElementsOver(PairTokens) \X ElementsOver(PairTokens))

KmlInit ==
    /\ doc \in KmlDocs
    /\ pc = "kml_start"
    /\ polygons = Idle
    /\ coordinates = Idle /\ point = Idle /\ i = 0 /\ inside = FALSE
    /\ p1 = Idle /\ xinters = Unassigned /\ result = Idle /\ raw = Idle
    /\ csvFile = Idle /\ kmlOk = TRUE /\ df = Idle /\ outputOk = TRUE
    /\ outputFile = Idle

\* load_kml_polygons(kml_file)
KmlCall ==
    /\ pc = "kml_start"
    /\ polygons' = LoadKmlPolygons(doc)
    /\ pc' = "kml_done"
    /\ UNCHANGED <<coordinates, point, i, inside, p1, xinters, result, raw,
                   doc, csvFile, kmlOk, outputOk, df, outputFile>>

KmlNext == KmlCall

SpecKml == KmlInit /\ [][KmlNext]_vars

\* The tokens of the enumeration that are a valid (lon, lat) pair, those
\* whose first two parts float() accepts, and the vertex each stands for
ValidToken(t) == t \in {TokLonLat, TokElevation, TokExponent, TokNan}
VertexOf(t) ==
    CASE t = TokLonLat -> V(1, 2)
      [] t = TokElevation -> V(2, 1)
      [] t = TokExponent -> V(100, 5)
      [] t = TokNan -> <<Nan, R(1)>>

RECURSIVE ValidVertices(_)
ValidVertices(toks) ==
    IF toks = <<>> THEN <<>>
    ELSE (IF ValidToken(toks[1]) THEN <<VertexOf(toks[1])>> ELSE <<>>)
             \o ValidVertices(Tail(toks))

RECURSIVE ExpectedPolygons(_)
ExpectedPolygons(d) ==
    IF d = <<>> THEN <<>>
    ELSE (IF Len(ValidVertices(d[1][2])) >= 3
          THEN <<ValidVertices(d[1][2])>> ELSE <<>>)
             \o ExpectedPolygons(Tail(d))

\* C6: load_kml_polygons keeps an outer ring if and only if at least 3 of its
\* tokens are valid (lon, lat) pairs; a non-numeric token is skipped alone, a
\* ring with fewer than 3 valid vertices is dropped, and the polygons returned
\* are, in document order, the valid vertices of the rings with at least 3.
C6_RingKeptIffThreeValid ==
    pc = "kml_done" =>
        /\ polygons = ExpectedPolygons(doc)
        /\ Len(polygons) =
             Cardinality({k \in 1 .. Len(doc) : Len(ValidVertices(doc[k][2])) >= 3})

\* a ring kept with a non-numeric token skipped, next to a ring dropped for
\* having two valid vertices only
C6_Witness ==
    /\ pc = "kml_done"
    /\ doc = << <<"text", <<TokLonLat, TokNonNumeric, TokLonLat, TokLonLat>> >>,
                <<"text", <<TokLonLat, TokLonLat, TokNonNumeric>> >> >>
    /\ Len(polygons) = 1 /\ Len(polygons[1]) = 3


-----------------------------------------------------------------------------
(* The DataFrame operations main uses *)

Range(f) == {f[k] : k \in DOMAIN f}

GpsColumn == "Punto gps"
PointColumn == "_point"
ZoneColumn == "Inside_Zone"
IdColumn == "Codigo"

RowMark == <<"1", "2", "3", "4">>

\* The field of column c in row r of the CSV file
Field(file, c, r) == IF c = GpsColumn THEN file.gps[r] ELSE <<c, RowMark[r]>>

\* The words read_csv reads as NaN besides the empty field: #N/A, #N/A N/A,
\* #NA, -1.#IND, -1.#QNAN, -NaN, -nan, 1.#IND, 1.#QNAN, <NA>, N/A, NA, NULL,
\* NaN, None, n/a, nan, null
NaValues ==
    {<<"#", "N", "/", "A">>, <<"#", "N", "/", "A", " ", "N", "/", "A">>,
     <<"#", "N", "A">>, <<"-", "1", ".", "#", "I", "N", "D">>,
     <<"-", "1", ".", "#", "Q", "N", "A", "N">>, <<"-", "N", "a", "N">>,
     <<"-", "n", "a", "n">>, <<"1", ".", "#", "I", "N", "D">>,
     <<"1", ".", "#", "Q", "N", "A", "N">>, <<"<", "N", "A", ">">>,
     <<"N", "/", "A">>, <<"N", "A">>, <<"N", "U", "L", "L">>,
     <<"N", "a", "N">>, <<"N", "o", "n", "e">>, <<"n", "/", "a">>,
     <<"n", "a", "n">>, <<"n", "u", "l", "l">>}

\* read_csv, for a column it reads as text: a column that holds a field that
\* is no number, no boolean word and not in NaValues, or fields of NaValues
\* only.  (The fields of a column of numbers are read as int64 or float64 and
\* written back as such, 007 as 7, and as 7.0 next to an empty field; every
\* column of the pipeline enumeration is a text column.)  An empty field and
\* a field of NaValues are read as NaN, any other field as the str itself.
ReadField(f) == IF f = <<>> \/ f \in NaValues THEN Missing ELSE f

\* line 118
ReadCsv(file) ==
    [cols |-> file.cols,
     data |-> [c \in Range(file.cols) |->
                 [r \in 1 .. Len(file.gps) |-> ReadField(Field(file, c, r))]]]

\* df[name] = values: an existing column is replaced in place, a new one is
\* appended
SetColumn(d, name, values) ==
    [cols |-> IF name \in Range(d.cols) THEN d.cols ELSE Append(d.cols, name),
     data |-> [c \in Range(d.cols) \cup {name} |->
                 IF c = name THEN values ELSE d.data[c]]]

RECURSIVE Without(_, _)
Without(cols, name) ==
    IF cols = <<>> THEN <<>>
    ELSE (IF cols[1] = name THEN <<>> ELSE <<cols[1]>>) \o Without(Tail(cols), name)

\* df.drop(columns=[name])
DropColumn(d, name) ==
    [cols |-> Without(d.cols, name),
     data |-> [c \in Range(d.cols) \ {name} |-> d.data[c]]]

\* to_csv: NaN is written as an empty field
WriteField(v) == IF v = Missing THEN <<>> ELSE v

\* line 153
ToCsv(d) ==
    [written |-> TRUE,
     cols |-> d.cols,
     data |-> [c \in Range(d.cols) |->
                 [r \in DOMAIN d.data[c] |-> WriteField(d.data[c][r])]]]

NotWritten == [written |-> FALSE, cols |-> <<>>, data |-> <<>>]
NoFrame == [cols |-> <<>>, data |-> <<>>]

BoolCell(b) == IF b THEN <<"True">> ELSE <<"False">>

-----------------------------------------------------------------------------
(* main *)

NumRows(d) == IF d.cols = <<>> THEN 0 ELSE Len(d.data[d.cols[1]])

\* The faulty variant of line 125 that catches the exception of ET.parse and
\* goes on with no polygon
KmlOutcomeSwallowed(ok, d) ==
    [pc |-> "kml_loaded", polygons |-> IF ok THEN LoadKmlPolygons(d) ELSE <<>>]
\* line 125: when ET.parse raises, the exception leaves main
KmlOutcome(ok, d) ==
    IF ok THEN [pc |-> "kml_loaded", polygons |-> LoadKmlPolygons(d)]
    ELSE [pc |-> "failed_kml", polygons |-> <<>>]

\* line 118: read_csv raises for a missing or unreadable file
MainReadCsv ==
    /\ pc = "main_start"
    /\ IF csvFile.ok
       THEN df' = ReadCsv(csvFile) /\ pc' = "csv_loaded"
       ELSE df' = df /\ pc' = "failed_csv"
    /\ UNCHANGED <<coordinates, point, i, inside, p1, xinters, polygons,
                   result, raw, doc, csvFile, kmlOk, outputOk, outputFile>>

\* The outcome o of the load becomes the state
MainKmlLoaded(o) ==
    /\ pc' = o.pc
    /\ polygons' = o.polygons

\* line 125
MainLoadKml ==
    /\ pc = "csv_loaded"
    /\ MainKmlLoaded(KmlOutcome(kmlOk, doc))
    /\ UNCHANGED <<coordinates, point, i, inside, p1, xinters, result, raw,
                   doc, csvFile, kmlOk, outputOk, df, outputFile>>

\* line 130: df['Punto gps'] raises KeyError when the column is missing
MainParse ==
    /\ pc = "kml_loaded"
    /\ IF GpsColumn \in Range(df.cols)
       THEN /\ df' = SetColumn(df, PointColumn,
                       [r \in 1 .. NumRows(df) |->
                           ParseClientCoordinates(df.data[GpsColumn][r])])
            /\ pc' = "parsed"
       ELSE df' = df /\ pc' = "failed_column"
    /\ UNCHANGED <<coordinates, point, i, inside, p1, xinters, polygons,
                   result, raw, doc, csvFile, kmlOk, outputOk, outputFile>>

\* The column of the outcomes q of point_in_any_polygon, one for each row,
\* is assigned unless a call raised
MainAnnotated(q) ==
    IF \E r \in DOMAIN q : q[r].raised
    THEN df' = df /\ pc' = "failed_annotate"
    ELSE /\ df' = SetColumn(df, ZoneColumn,
                    [r \in DOMAIN q |-> BoolCell(q[r].value)])
         /\ pc' = "annotated"

\* line 138
MainAnnotate ==
    /\ pc = "parsed"
    /\ MainAnnotated([r \in 1 .. NumRows(df) |->
                        PointInAnyPolygon(df.data[PointColumn][r], polygons)])
    /\ UNCHANGED <<coordinates, point, i, inside, p1, xinters, polygons,
                   result, raw, doc, csvFile, kmlOk, outputOk, outputFile>>

\* lines 149-153: to_csv raises OSError when the output file cannot be opened
\* for writing, and nothing is written
MainSave ==
    /\ pc = "annotated"
    /\ IF outputOk
       THEN outputFile' = ToCsv(DropColumn(df, PointColumn)) /\ pc' = "written"
       ELSE outputFile' = outputFile /\ pc' = "failed_save"
    /\ UNCHANGED <<coordinates, point, i, inside, p1, xinters, polygons,
                   result, raw, doc, csvFile, kmlOk, outputOk, df>>

\* lines 159-164: output_df[['Codigo', ...]] raises KeyError without the column
MainReport ==
    /\ pc = "written"
    /\ pc' = IF IdColumn \in Range(outputFile.cols)
             THEN "main_done" ELSE "failed_report"
    /\ UNCHANGED <<coordinates, point, i, inside, p1, xinters, polygons,
                   result, raw, doc, csvFile, kmlOk, outputOk, df, outputFile>>

MainNext ==
    \/ MainReadCsv
    \/ MainLoadKml
    \/ MainParse
    \/ MainAnnotate
    \/ MainSave
    \/ MainReport

\* The inputs of the pipeline enumeration
FieldEmpty == <<>>
FieldNA == <<"N", "A">>
FieldWord == <<"x">>
FieldInA == <<"2", ",", "1">>
FieldInB == <<"1", ",", "7">>
FieldOutside == <<"7", ",", "1">>
FieldExponent == <<"2", "e", "0", ",", "+", "1">>
FieldNan == <<"n", "a", "n", ",", "1">>
FieldThree == <<"1", ",", "2", ",", "3">>
FieldHalfWord == <<"1", ",", "x">>
FieldBadExponent == <<"1", "e", ",", "2">>
GpsFields ==
    {FieldEmpty, FieldNA, FieldWord, FieldInA, FieldInB, FieldOutside,
     FieldExponent, FieldNan, FieldThree, FieldHalfWord, FieldBadExponent}

Headers ==
    { <<IdColumn, GpsColumn>>,
      <<IdColumn, GpsColumn, ZoneColumn>>,
      <<PointColumn, IdColumn, GpsColumn>>,
      <<IdColumn, "Obs">>,
      <<GpsColumn, "Obs">> }

Tok(a, b) == <<a, ",", b>>
RingA == <<"text", <<Tok("0", "0"), Tok("4", "0"), Tok("4", "4"), Tok("0", "4")>> >>
RingB == <<"text", <<Tok("5", "0") \o <<",", "0">>, Tok("9", "0") \o <<",", "0">>,
                     Tok("9", "4") \o <<",", "0">>, Tok("5", "4") \o <<",", "0">> >> >>
RingShort == <<"text", <<Tok("5", "0"), Tok("9", "0")>> >>
MainDocs == { <<RingA, RingB>>, <<RingShort, <<"none", <<>>>>, RingA>>, <<>> }

CsvFiles ==
    {[ok |-> FALSE, cols |-> <<>>, gps |-> <<>>]}
        \cup {[ok |-> TRUE, cols |-> h, gps |-> g] :
                 h \in Headers,
                 g \in UNION {SeqsOf(GpsFields, n) : n \in 0 .. MaxRows}}

MainInit ==
    /\ csvFile \in CsvFiles
    /\ \/ kmlOk = TRUE /\ doc \in MainDocs
       \/ kmlOk = FALSE /\ doc = <<>>
    /\ outputOk \in BOOLEAN
    /\ pc = "main_start"
    /\ df = NoFrame
    /\ outputFile = NotWritten
    /\ polygons = <<>>
    /\ coordinates = Idle /\ point = Idle /\ i = 0 /\ inside = FALSE
    /\ p1 = Idle /\ xinters = Unassigned /\ result = Idle /\ raw = Idle

SpecMain == MainInit /\ [][MainNext]_vars


-----------------------------------------------------------------------------
(* Properties of main, checked under SpecMain *)

AfterParse == {"parsed", "annotated", "written", "main_done", "failed_report"}
AfterWrite == {"written", "main_done", "failed_report"}

\* The fields of the enumeration that are no "lat,lon" pair: empty or NA
\* (read as missing), one token, three tokens, a token float() refuses
MalformedField(f) ==
    f \in {FieldEmpty, FieldNA, FieldWord, FieldThree, FieldHalfWord,
            FieldBadExponent}

\* The Point of the other fields of the enumeration, each of two tokens
\* float() accepts
PointOfField(f) ==
    CASE f = FieldInA -> Point(R(1), R(2))
      [] f = FieldInB -> Point(R(7), R(1))
      [] f = FieldOutside -> Point(R(1), R(7))
      [] f = FieldExponent -> Point(R(1), R(2))
      [] f = FieldNan -> Point(R(1), Nan)

\* C5: a malformed coordinate string never aborts the run: the parse of a
\* value that is missing, empty, of a token count other than two or with a
\* token float() refuses is None, and of no other value; no failure of main
\* comes from a coordinate string: main fails only when a file cannot be read
\* or written or a column is missing; and every record of the input gets an
\* output row, with Inside_Zone false where the parse was None.
C5_MalformedNeverAborts ==
    LET n == Len(csvFile.gps)
    IN  /\ pc # "failed_annotate"
        /\ pc = "failed_csv" => ~csvFile.ok
        /\ pc = "failed_kml" => ~kmlOk
        /\ pc = "failed_save" => ~outputOk
        /\ pc = "failed_column" => GpsColumn \notin Range(csvFile.cols)
        /\ pc \in {"parsed", "annotated"} =>
              /\ DOMAIN df.data[PointColumn] = 1 .. n
              /\ \A r \in 1 .. n :
                    df.data[PointColumn][r] =
                        IF MalformedField(csvFile.gps[r]) THEN None
                        ELSE PointOfField(csvFile.gps[r])
        /\ pc \in AfterWrite =>
              /\ outputFile.written
              /\ DOMAIN outputFile.data[ZoneColumn] = 1 .. n
              /\ \A r \in 1 .. n :
                    MalformedField(csvFile.gps[r]) =>
                        outputFile.data[ZoneColumn][r] = BoolCell(FALSE)

\* a run over a malformed and a well-formed record, ended normally
C5_Witness ==
    /\ pc = "main_done"
    /\ csvFile.gps = <<FieldWord, FieldInA>>
    /\ outputFile.data[ZoneColumn][1] = BoolCell(FALSE)
    /\ outputFile.data[ZoneColumn][2] = BoolCell(TRUE)

\* C7: a successful run preserves the records: the output has the N rows of
\* the input in the same order, every original column keeps its value in every
\* row, and the output has exactly one column more than the input
\* (Inside_Zone), without the temporary _point column.
C7_RecordsPreserved ==
    pc = "main_done" =>
        LET n == Len(csvFile.gps)
        IN  /\ outputFile.written
            /\ \A c \in Range(outputFile.cols) :
                  DOMAIN outputFile.data[c] = 1 .. n
            /\ \A c \in Range(csvFile.cols) :
                  /\ c \in Range(outputFile.cols)
                  /\ \A r \in 1 .. n :
                        outputFile.data[c][r] = Field(csvFile, c, r)
            /\ Len(outputFile.cols) = Len(csvFile.cols) + 1
            /\ ZoneColumn \in Range(outputFile.cols)
            /\ PointColumn \notin Range(outputFile.cols)

\* a successful run over an input whose header already holds Inside_Zone
C7_ClashReached ==
    /\ pc = "main_done"
    /\ ZoneColumn \in Range(csvFile.cols)
    /\ Len(csvFile.gps) = 2
    /\ Len(outputFile.cols) = Len(csvFile.cols)

\* C8: a whole-file load failure produces no output: when reading the CSV or
\* parsing the KML fails the output file is never written, and it is written
\* only after both loads and the annotation of every record.
C8_NoOutputOnLoadFailure ==
    /\ (~csvFile.ok \/ ~kmlOk) => outputFile = NotWritten
    /\ pc \in {"failed_csv", "failed_kml"} => outputFile = NotWritten
    /\ outputFile # NotWritten =>
          /\ pc \in AfterWrite
          /\ csvFile.ok /\ kmlOk
          /\ ZoneColumn \in Range(df.cols)
          /\ DOMAIN df.data[ZoneColumn] = 1 .. Len(csvFile.gps)
          /\ \A r \in 1 .. Len(csvFile.gps) :
                df.data[ZoneColumn][r] \in {BoolCell(TRUE), BoolCell(FALSE)}

\* the KML fails to parse after a CSV of records was read
C8_Witness ==
    /\ pc = "failed_kml"
    /\ csvFile.ok /\ Len(csvFile.gps) > 0 /\ ~kmlOk
    /\ df # NoFrame
    /\ outputFile = NotWritten

=============================================================================
